---- MODULE Spec2Model ----
(***************************************************************************)
(* A model of the lyrics scraper: the session/store URL check, the         *)
(* classification of a URL by its path, the extraction of a song page,     *)
(* the saving of artists, albums and songs in the music database and in    *)
(* the scraped_data dictionary, and the start_scraping loop.               *)
(***************************************************************************)
EXTENDS Integers, Sequences, FiniteSets, TLC

(***************************************************************************)
(* Bounds of the model.                                                    *)
(***************************************************************************)
MaxOps == 3
MaxUrls == 2
MaxSegs == 2
MaxYearLen == 5
MaxItems == 4
MaxResults == 2
MaxTags == 3
MaxRetryTags == 1
MaxCalls == 3
MaxLinks == 3

(***************************************************************************)
(* Characters and strings.  A Python str is a sequence of one-character    *)
(* strings.                                                                *)
(***************************************************************************)
Digits == {"0", "1", "2", "3", "4", "5", "6", "7", "8", "9"}
Letters == {"a", "b", "c", "d", "e", "f", "g", "h", "i", "j", "k", "l", "m",
            "n", "o", "p", "q", "r", "s", "t", "u", "v", "w", "x", "y", "z"}

isalpha(c) == c \in Letters

isdecimal(s) == Len(s) > 0 /\ \A i \in 1..Len(s) : s[i] \in Digits

startswith(s, p) == Len(s) >= Len(p) /\ SubSeq(s, 1, Len(p)) = p

SeqToSet(s) == {s[i] : i \in 1..Len(s)}

LyricsPrefix == <<"/", "l", "y", "r", "i", "c", "s", "/">>
NumericPrefix == <<"/", "1", "9", "/">>

(***************************************************************************)
(* Classification of a URL by its path, as _get_lyrics_from_url does it.   *)
(* The result is the kind of page scraped, or the exception raised.        *)
(* path[1] (Python, 0-based) is path[2] here; it raises IndexError on a    *)
(* path shorter than two characters.                                       *)
(***************************************************************************)
get_lyrics_from_url_artist_first(path) ==
    IF Len(path) >= 2 /\ (startswith(path, NumericPrefix) \/ isalpha(path[2]))
    THEN "ARTIST"
    ELSE IF startswith(path, LyricsPrefix) THEN "SONG"
    ELSE "InvalidURLCategoryError"

get_lyrics_from_url(path) ==
    IF startswith(path, LyricsPrefix) THEN "SONG"
    ELSE IF startswith(path, NumericPrefix) THEN "ARTIST"
    ELSE IF Len(path) < 2 THEN "IndexError"
    ELSE IF isalpha(path[2]) THEN "ARTIST"
    ELSE "InvalidURLCategoryError"

(***************************************************************************)
(* re.findall(r'\d+', text): the maximal runs of digits of text, in order. *)
(***************************************************************************)
RECURSIVE findall_digits(_)
findall_digits(text) ==
    IF text = <<>> THEN <<>>
    ELSE IF Head(text) \notin Digits THEN findall_digits(Tail(text))
    ELSE LET n == CHOOSE k \in 1..Len(text) :
                     /\ \A i \in 1..k : text[i] \in Digits
                     /\ (k = Len(text) \/ text[k + 1] \notin Digits)
         IN  <<SubSeq(text, 1, n)>> \o findall_digits(SubSeq(text, n + 1, Len(text)))

(***************************************************************************)
(* The sanity checks on the year of an album block of a song page.         *)
(***************************************************************************)
check_album_year_four_or_more(year_result) ==
    IF Len(year_result) # 1 THEN "NonUniqueAlbumYearError"
    ELSE IF ~(Len(year_result[1]) >= 4 /\ isdecimal(year_result[1]))
         THEN "WrongAlbumYearError"
    ELSE "ok"

check_album_year(year_result) ==
    IF Len(year_result) # 1 THEN "NonUniqueAlbumYearError"
    ELSE IF ~(Len(year_result[1]) = 4 /\ isdecimal(year_result[1]))
         THEN "WrongAlbumYearError"
    ELSE "ok"

(***************************************************************************)
(* The web, as the scraper sees it.  Every URL has a host, a path, a copy  *)
(* in the cache directory or none, an answer of the server, and a page.    *)
(***************************************************************************)
Urls == {"song1", "song2", "twolyr", "nolyr", "badyear", "badyear2", "gone",
         "foreign", "foreign2", "badcat", "artist"}

valid_domains == {"www.azlyrics.com"}

netloc(url) == IF url \in {"foreign", "foreign2"} THEN "www.lyrics.com"
               ELSE "www.azlyrics.com"

urlpath(url) ==
    CASE url = "song1"   -> LyricsPrefix \o <<"a">>
      [] url = "song2"   -> LyricsPrefix \o <<"x">>
      [] url = "twolyr"  -> LyricsPrefix \o <<"t">>
      [] url = "nolyr"   -> LyricsPrefix \o <<"n">>
      [] url = "badyear" -> LyricsPrefix \o <<"y">>
      [] url = "badyear2" -> LyricsPrefix \o <<"z">>
      [] url = "gone"    -> LyricsPrefix \o <<"o">>
      [] url = "foreign" -> LyricsPrefix \o <<"a">>
      [] url = "foreign2" -> LyricsPrefix \o <<"b">>
      [] url = "badcat"  -> <<"/", "1", "/", "a">>
      [] OTHER           -> <<"/", "a", "/", "a">>

\* os.path.isfile(webpage_filepath): the page is already in the cache
CachedUrls == {"song2", "foreign2"}

\* urlopen(url): the server answers, or urllib.error.URLError is raised
urlopen(url) == IF url = "gone" THEN "URLError" ELSE "ok"

\* webcache.get_webpage(url): the HTML, or HTTP404Error
get_webpage(url) == IF url = "gone" THEN "HTTP404Error" ELSE "ok"

Y1981 == <<"1", "9", "8", "1">>
Y1982 == <<"1", "9", "8", "2">>

\* the page behind a URL: the song and the artist of its title, the texts of
\* its <div>s without class and id, and its album panels (title, year text)
Page(url) ==
    CASE url = "song2" ->
           [song |-> "s2", artist |-> "ar1", lyrics |-> <<"new">>,
            albums |-> << [title |-> "al1", year |-> <<" ", "(">> \o Y1981 \o <<")">>],
                          [title |-> "al2", year |-> <<" ", "(">> \o Y1982 \o <<")">>] >>]
      [] url = "twolyr" ->
           [song |-> "s3", artist |-> "ar1", lyrics |-> <<"new", "new">>,
            albums |-> <<>>]
      [] url = "nolyr" ->
           [song |-> "s5", artist |-> "ar1", lyrics |-> <<>>,
            albums |-> <<>>]
      [] url = "badyear" ->
           [song |-> "s4", artist |-> "ar2", lyrics |-> <<"new">>,
            albums |-> << [title |-> "al3", year |-> <<" ", "(", "1", "9", ")">>] >>]
      [] url = "badyear2" ->
           [song |-> "s6", artist |-> "ar2", lyrics |-> <<"new">>,
            albums |-> << [title |-> "al1", year |-> <<" ", "(">> \o Y1981 \o <<")">>],
                          [title |-> "al3", year |-> <<" ", "(", "1", "9", ")">>] >>]
      [] url = "artist" ->
           [song |-> "", artist |-> "ar2", lyrics |-> <<>>, albums |-> <<>>]
      [] OTHER ->
           [song |-> "s1", artist |-> "ar1", lyrics |-> <<"new">>,
            albums |-> <<>>]

(***************************************************************************)
(* The state of a scraper and of its music database.                       *)
(***************************************************************************)
VARIABLES
    lyrics_urls,    \* configuration: the URLs to scrape
    db_filepath,    \* configuration: TRUE iff a database file path is given
    overwrite_db,   \* configuration: a stored song may be updated
    db_conn,        \* "none" (None), "open" or "closed"
    songs0,         \* the songs table when the scraper was constructed
    songs,          \* table songs: rows (song_title, artist_name, album_title,
                    \*               lyrics_url, lyrics, year)
    artists,        \* table artists: rows (artist_name)
    albums,         \* table albums: rows (album_title, artist_name, year)
    scraped_data,   \* the 'data' lists of the scraped_data dictionary
    checked_urls,
    good_urls,
    skipped_urls,   \* url -> list of error messages (<<>>: no such key)
    fetched,        \* the URLs whose page was requested from the web cache
    called,         \* the URLs the session check was called on
    last,           \* the last operation and what it returned or raised
    nops,           \* number of operations so far
    idx,            \* start_scraping: index of the next URL of lyrics_urls
    pc,             \* start_scraping: "idle", "loop", "done" or "raised"
    handled,        \* start_scraping: for each URL handled, what its try-block raised,
                    \* whether urlopen was called, the connection it started with
    cpath,          \* classification: the path given
    cresult,        \* classification: "pending", or what the call returned/raised
    ytext,          \* year validation: the text after the title of an album block
    yresult,        \* year validation: the error raised ("pending" before the
                    \* call) and the year kept
    artist_page,    \* artist page: the <div class="album"> tags, the anchors
                    \* and the other tags of the list of albums, in order
    include_unknown_year,   \* artist page: the songs of "other songs" are wanted
    ignore_errors,  \* artist page: an album with a wrong year is skipped
    artist_albums,  \* artist page: the error raised ("pending" before the
                    \* call) and the dictionary of the Albums object
    nb_results,     \* prompt: the number of search results listed
    ppc,            \* prompt: where _multiple_search_result_case (several
                    \* results) or _single_search_result_case (one) is
    alarm,          \* prompt: TRUE iff an alarm is scheduled
    raw,            \* prompt: what input(msg) returned last
    answer,         \* prompt: the local variable answer
    answered,       \* prompt: the user has typed something since the call
    retval,         \* prompt: what the prompt returned, 0 for None
    tag,            \* prompt: the search result _get_lyrics goes on with, 0
                    \* when none
    search_first,   \* search: the results of the request with the whole query
    search_retry,   \* search: the results of a request with the title only
    artist_name,    \* search: TRUE iff an artist name is given
    best_match,     \* search: the option best_match
    lresult,        \* search: what _get_lyrics returned ("pending" before
                    \* the call) and the index in tags of the result scraped
    retcode,        \* script: the variable retcode of main
    mainpc,         \* script: "idle", "called" (main is called for an
                    \* action) or "returned"
    user_cfg,       \* script: the user's config file of each type
    bak_cfg,        \* script: the backup file of each type
    last_action,    \* script: the action main performed last, with the
                    \* exception main caught
    ncalls,         \* script: the number of calls of main so far
    before_reset,   \* script: the user's config file of each type as it was
                    \* when the last reset that returned 0 began
    crawl_urls,     \* crawl: the artist pages configured, each one the list
                    \* of its song links
    crawl_overwrite,    \* crawl: the option overwrite_db
    crawl_idx,      \* crawl: index of the configured URL being processed
    crawl_link,     \* crawl: index of the next song link of the artist page
    crawl_pc,       \* crawl: "idle", "loop", "artist", "done" or "raised"
    crawl_log       \* crawl: the calls of _crawl_lyrics_page so far, each
                    \* with the exception that left it

vars == <<lyrics_urls, db_filepath, overwrite_db, db_conn, songs0, songs,
          artists, albums, scraped_data, checked_urls, good_urls,
          skipped_urls, fetched, called, last, nops, idx, pc, handled,
          cpath, cresult, ytext, yresult, artist_page, include_unknown_year,
          ignore_errors, artist_albums, nb_results, ppc, alarm, raw, answer,
          answered, retval, tag, search_first, search_retry, artist_name,
          best_match, lresult, retcode, mainpc, user_cfg, bak_cfg,
          last_action, ncalls, before_reset, crawl_urls, crawl_overwrite,
          crawl_idx, crawl_link, crawl_pc, crawl_log>>

config_vars == <<lyrics_urls, db_filepath, overwrite_db, songs0>>
run_vars == <<idx, pc, handled, good_urls, skipped_urls>>
classify_vars == <<cpath, cresult>>
year_vars == <<ytext, yresult>>
\* the variables of the extraction functions that are checked on their own
artist_vars == <<artist_page, include_unknown_year, ignore_errors,
                 artist_albums>>
prompt_vars == <<nb_results, ppc, alarm, raw, answer, answered, retval, tag>>
search_vars == <<search_first, search_retry, artist_name, best_match,
                 lresult>>
cfg_vars == <<user_cfg, bak_cfg, last_action, ncalls, before_reset>>
script_vars == <<retcode, mainpc, cfg_vars>>
crawl_vars == <<crawl_urls, crawl_overwrite, crawl_idx, crawl_link,
                crawl_pc, crawl_log>>
more_vars == <<search_vars, script_vars, crawl_vars>>
pure_vars == <<year_vars, artist_vars, prompt_vars, more_vars>>
\* the variables of a scraper and of its run
scraper_vars == <<config_vars, run_vars, db_conn, songs, artists, albums,
                  scraped_data, checked_urls, fetched, called, last, nops>>

YearIdle == ytext = <<>> /\ yresult = [exc |-> "idle", year |-> <<>>]
ArtistIdle ==
    /\ artist_page = <<>>
    /\ include_unknown_year = FALSE
    /\ ignore_errors = FALSE
    /\ artist_albums = [exc |-> "idle", albums |-> <<>>]
\* a Python value that is a str or an int
StrValue(s) == [isint |-> FALSE, n |-> 0, s |-> s]
IntValue(n) == [isint |-> TRUE, n |-> n, s |-> ""]
PromptIdle ==
    /\ nb_results = 0
    /\ ppc = "idle"
    /\ alarm = FALSE
    /\ raw = ""
    /\ answer = StrValue("")
    /\ answered = FALSE
    /\ retval = 0
    /\ tag = 0
SearchIdle ==
    /\ search_first = <<>>
    /\ search_retry = <<>>
    /\ artist_name = FALSE
    /\ best_match = FALSE
    /\ lresult = [ret |-> "idle", index |-> 0]
\* the types of config file, and the content of a file: the configuration
\* that load_cfg reads from it and what else the text holds (comments, layout)
CfgTypes == {"log", "main"}
Missing == [cfg |-> "no file", text |-> 0]
DefaultFile == [cfg |-> "default", text |-> 0]
NoAction == [name |-> "none", cfg_type |-> "", exc |-> "ok"]
CfgIdle ==
    /\ user_cfg = [t \in CfgTypes |-> DefaultFile]
    /\ bak_cfg = [t \in CfgTypes |-> Missing]
    /\ last_action = NoAction
    /\ ncalls = 0
    /\ before_reset = [t \in CfgTypes |-> Missing]
ScriptIdle == retcode = 1 /\ mainpc = "idle" /\ CfgIdle
CrawlIdle ==
    /\ crawl_urls = <<>>
    /\ crawl_overwrite = FALSE
    /\ crawl_idx = 1
    /\ crawl_link = 1
    /\ crawl_pc = "idle"
    /\ crawl_log = <<>>
MoreIdle == SearchIdle /\ ScriptIdle /\ CrawlIdle
PureIdle == YearIdle /\ ArtistIdle /\ PromptIdle /\ MoreIdle

NoSong == <<"", "", "", "", "", <<>> >>
NoLast == [op |-> "none", url |-> "", exc |-> "ok", ret |-> "", song |-> NoSong,
           again |-> FALSE, requested |-> FALSE]

\* a row of the songs table left by an earlier run
OldRow(url) == <<Page(url).song, Page(url).artist, "", url, "old", <<>> >>

(***************************************************************************)
(* The music database.                                                     *)
(***************************************************************************)
\* what a use of db_conn (cursor(), commit()) raises
db_error == CASE db_conn = "none"   -> "AttributeError"
              [] db_conn = "closed" -> "ProgrammingError"
              [] OTHER              -> "ok"

\* the uniqueness constraints of the schema music.sql: sqlite3.IntegrityError
artists_integrity_error(row) == \E r \in SeqToSet(artists) : r[1] = row[1]
albums_integrity_error(row) ==
    \E r \in SeqToSet(albums) : r[1] = row[1] /\ r[2] = row[2]
songs_integrity_error(row) == \E r \in SeqToSet(songs) : r[4] = row[4]

\* _execute_sql for an INSERT query: the exception raised and the new table;
\* an IntegrityError is caught and None is returned
execute_sql(table, row, integrity_error) ==
    IF db_error # "ok" THEN [exc |-> db_error, table |-> table]
    ELSE IF integrity_error THEN [exc |-> "ok", table |-> table]
    ELSE [exc |-> "ok", table |-> Append(table, row)]

insert_album(album) == execute_sql(albums, album, albums_integrity_error(album))
insert_artist(artist) == execute_sql(artists, artist, artists_integrity_error(artist))
insert_song(song) == execute_sql(songs, song, songs_integrity_error(song))

\* _select_song_from_url: the rows of the songs with the given URL
select_song_from_url(lyrics_url) ==
    IF db_error # "ok" THEN [exc |-> db_error, rows |-> <<>>]
    ELSE [exc |-> "ok", rows |-> SelectSeq(songs, LAMBDA r : r[4] = lyrics_url)]

(***************************************************************************)
(* The scraped_data dictionary.                                            *)
(***************************************************************************)
update_scraped_data_always_append(data_tuple, data) == Append(data, data_tuple)

update_scraped_data(data_tuple, data) ==
    IF data_tuple \in SeqToSet(data) THEN data ELSE Append(data, data_tuple)

\* _count_empty_items
count_empty_items(data) == Cardinality({i \in 1..Len(data) : data[i] = ""})

\* _save_album, _save_artist, _save_song: the exception raised, the new table
\* and the new list of scraped_data
save(data_tuple, nkeys, table, data, inserted) ==
    IF count_empty_items(SubSeq(data_tuple, 1, nkeys)) # 0
    THEN [exc |-> "ok", table |-> table, data |-> data]
    ELSE IF db_conn # "none" /\ inserted.exc # "ok"
    THEN [exc |-> inserted.exc, table |-> table, data |-> data]
    ELSE [exc |-> "ok",
          table |-> IF db_conn # "none" THEN inserted.table ELSE table,
          data |-> update_scraped_data(data_tuple, data)]

save_album_with_empty_title(album) ==
    save(album, 0, albums, scraped_data.albums, insert_album(album))

save_album(album) ==
    save(album, 2, albums, scraped_data.albums, insert_album(album))
save_artist(artist) ==
    save(artist, 1, artists, scraped_data.artists, insert_artist(artist))
save_song(song) ==
    save(song, 1, songs, scraped_data.songs, insert_song(song))

(***************************************************************************)
(* The check of a URL against the session and the database.                *)
(***************************************************************************)
\* _url_in_db: "0" not found, "1" found and not updatable, "2" found and
\* updatable, or MultipleLyricsURLError
url_in_db(url) ==
    LET res == select_song_from_url(url)
    IN  IF res.exc # "ok" THEN [exc |-> res.exc, ret |-> ""]
        ELSE IF Len(res.rows) = 1
             THEN [exc |-> "ok", ret |-> IF overwrite_db THEN "2" ELSE "1"]
        ELSE IF Len(res.rows) = 0 THEN [exc |-> "ok", ret |-> "0"]
        ELSE [exc |-> "MultipleLyricsURLError", ret |-> ""]

\* _url_already_processed: the exception raised, the return code and the new
\* checked_urls
url_already_processed(url) ==
    IF url \in checked_urls
    THEN [exc |-> "ok", ret |-> "1", checked |-> checked_urls]
    ELSE LET indb == IF db_filepath THEN url_in_db(url)
                     ELSE [exc |-> "ok", ret |-> ""]
         IN  IF indb.exc # "ok"
             THEN [exc |-> indb.exc, ret |-> "", checked |-> checked_urls]
             ELSE IF db_filepath /\ indb.ret = "2"
             THEN [exc |-> "ok", ret |-> "2", checked |-> checked_urls]
             ELSE [exc |-> "ok", ret |-> "0",
                   checked |-> checked_urls \cup {url}]

(***************************************************************************)
(* The extraction of a song page (_scrape_lyrics_page, once the page is    *)
(* there): the exception raised, or the Lyrics object returned.  The       *)
(* method returns at the end of the first turn of its loop over the album  *)
(* panels.                                                                 *)
(***************************************************************************)
scrape_song_fields_some_lyrics(url) ==
    LET page == Page(url)
        no_album == page.albums = <<>>
        year_result == IF no_album THEN <<>>
                       ELSE findall_digits(page.albums[1].year)
        year_check == IF no_album THEN "ok" ELSE check_album_year(year_result)
    IN  IF Len(page.lyrics) = 0
        THEN [exc |-> "NonUniqueLyricsError", song |-> NoSong]
        ELSE IF year_check # "ok" THEN [exc |-> year_check, song |-> NoSong]
        ELSE [exc |-> "ok",
              song |-> <<page.song, page.artist,
                         IF no_album THEN "" ELSE page.albums[1].title,
                         url, page.lyrics[1],
                         IF no_album THEN <<>> ELSE year_result[1]>>]

scrape_song_fields(url) ==
    LET page == Page(url)
        no_album == page.albums = <<>>
        year_result == IF no_album THEN <<>>
                       ELSE findall_digits(page.albums[1].year)
        year_check == IF no_album THEN "ok" ELSE check_album_year(year_result)
    IN  IF Len(page.lyrics) # 1
        THEN [exc |-> "NonUniqueLyricsError", song |-> NoSong]
        ELSE IF year_check # "ok" THEN [exc |-> year_check, song |-> NoSong]
        ELSE [exc |-> "ok",
              song |-> <<page.song, page.artist,
                         IF no_album THEN "" ELSE page.albums[1].title,
                         url, page.lyrics[1],
                         IF no_album THEN <<>> ELSE year_result[1]>>]

\* _scrape_lyrics_page: the exception raised, what is returned ("Lyrics" or
\* "None"), the Lyrics object, the new checked_urls, whether the page was
\* requested
scrape_lyrics_page(lyrics_url) ==
    LET chk == url_already_processed(lyrics_url)
        skip == [exc |-> chk.exc, ret |-> "None", song |-> NoSong,
                 checked |-> chk.checked, requested |-> FALSE]
    IN  IF chk.exc # "ok" \/ chk.ret \notin {"0", "2"} THEN skip
        ELSE IF get_webpage(lyrics_url) # "ok"
        THEN [skip EXCEPT !.exc = get_webpage(lyrics_url), !.requested = TRUE]
        ELSE LET f == scrape_song_fields(lyrics_url)
             IN  [exc |-> f.exc, ret |-> IF f.exc = "ok" THEN "Lyrics" ELSE "None",
                  song |-> f.song, checked |-> chk.checked, requested |-> TRUE]

(***************************************************************************)
(* The scraper after construction.  The database file, when one is         *)
(* configured, may hold the songs of an earlier run.                       *)
(***************************************************************************)
InitScraper ==
    /\ db_filepath \in BOOLEAN
    /\ overwrite_db \in BOOLEAN
    /\ db_conn \in {"none"} \cup (IF db_filepath THEN {"open"} ELSE {})
    /\ songs0 \in IF db_filepath
                  THEN {<<>>, <<OldRow("song1")>>,
                        <<OldRow("song1"), OldRow("song1")>>}
                  ELSE {<<>>}
    /\ songs = songs0
    /\ artists = IF songs0 = <<>> THEN <<>> ELSE << <<"ar1">> >>
    /\ albums = <<>>
    /\ scraped_data = [albums |-> <<>>, artists |-> <<>>, songs |-> <<>>]
    /\ checked_urls = {}
    /\ good_urls = {}
    /\ skipped_urls = [u \in Urls |-> <<>>]
    /\ fetched = {}
    /\ called = {}
    /\ last = NoLast
    /\ nops = 0
    /\ idx = 1
    /\ handled = <<>>
    /\ PureIdle

Init ==
    /\ InitScraper
    /\ lyrics_urls = <<>>
    /\ pc = "idle"
    /\ cpath = <<>>
    /\ cresult = "pending"

(***************************************************************************)
(* The operations of a scraper, called one after the other.                *)
(***************************************************************************)
ArtistInputs == {<<"ar1">>, <<"ar2">>, <<"">>}
AlbumInputs == {<<"al1", "ar1", Y1981>>, <<"al1", "ar1", Y1982>>,
                <<"", "ar1", <<>> >>}
SongInputs == {<<"s1", "ar1", "al1", "song1", "new", Y1981>>,
               <<"s1", "ar1", "al2", "song1", "new", Y1982>>,
               <<"s2", "ar1", "", "song2", "new", <<>> >>,
               <<"", "ar1", "", "song2", "new", <<>> >>}
SongUrls == {"song1", "song2", "twolyr", "nolyr", "badyear", "badyear2", "gone"}

UrlAlreadyProcessed(url) ==
    /\ nops < MaxOps
    /\ LET r == url_already_processed(url)
       IN  /\ checked_urls' = r.checked
           /\ last' = [op |-> "check", url |-> url, exc |-> r.exc,
                       ret |-> r.ret, song |-> NoSong, again |-> url \in called,
                       requested |-> FALSE]
    /\ called' = called \cup {url}
    /\ nops' = nops + 1
    /\ UNCHANGED <<config_vars, run_vars, classify_vars, pure_vars, db_conn, songs,
                   artists, albums, scraped_data, fetched>>

ScrapeLyricsPage(url) ==
    /\ nops < MaxOps
    /\ LET r == scrape_lyrics_page(url)
       IN  /\ checked_urls' = r.checked
           /\ fetched' = IF r.requested THEN fetched \cup {url} ELSE fetched
           /\ last' = [op |-> "scrape", url |-> url, exc |-> r.exc,
                       ret |-> r.ret, song |-> r.song, again |-> url \in called,
                       requested |-> r.requested]
    /\ called' = called \cup {url}
    /\ nops' = nops + 1
    /\ UNCHANGED <<config_vars, run_vars, classify_vars, pure_vars, db_conn, songs,
                   artists, albums, scraped_data>>

SaveArtist(artist) ==
    /\ nops < MaxOps
    /\ LET r == save_artist(artist)
       IN  /\ artists' = r.table
           /\ scraped_data' = [scraped_data EXCEPT !.artists = r.data]
           /\ last' = [op |-> "save_artist", url |-> "", exc |-> r.exc,
                       ret |-> "", song |-> NoSong,
                       again |-> artist \in SeqToSet(scraped_data.artists),
                       requested |-> FALSE]
    /\ nops' = nops + 1
    /\ UNCHANGED <<config_vars, run_vars, classify_vars, pure_vars, db_conn, songs,
                   albums, checked_urls, fetched, called>>

SaveAlbum(album) ==
    /\ nops < MaxOps
    /\ LET r == save_album(album)
       IN  /\ albums' = r.table
           /\ scraped_data' = [scraped_data EXCEPT !.albums = r.data]
           /\ last' = [op |-> "save_album", url |-> "", exc |-> r.exc,
                       ret |-> "", song |-> NoSong,
                       again |-> album \in SeqToSet(scraped_data.albums),
                       requested |-> FALSE]
    /\ nops' = nops + 1
    /\ UNCHANGED <<config_vars, run_vars, classify_vars, pure_vars, db_conn, songs,
                   artists, checked_urls, fetched, called>>

SaveSong(song) ==
    /\ nops < MaxOps
    /\ LET r == save_song(song)
       IN  /\ songs' = r.table
           /\ scraped_data' = [scraped_data EXCEPT !.songs = r.data]
           /\ last' = [op |-> "save_song", url |-> song[4], exc |-> r.exc,
                       ret |-> "", song |-> song,
                       again |-> song \in SeqToSet(scraped_data.songs),
                       requested |-> FALSE]
    /\ nops' = nops + 1
    /\ UNCHANGED <<config_vars, run_vars, classify_vars, pure_vars, db_conn, artists,
                   albums, checked_urls, fetched, called>>

Next ==
    \/ \E url \in SongUrls : UrlAlreadyProcessed(url)
    \/ \E url \in SongUrls : ScrapeLyricsPage(url)
    \/ \E artist \in ArtistInputs : SaveArtist(artist)
    \/ \E album \in AlbumInputs : SaveAlbum(album)
    \/ \E song \in SongInputs : SaveSong(song)

Spec == Init /\ [][Next]_vars

(***************************************************************************)
(* start_scraping: one turn of its loop for each URL of lyrics_urls.       *)
(***************************************************************************)
\* _check_url_if_processed, called by _process_url: the session check; a URL
\* already processed during the session is not processed again
check_url_if_processed(url) ==
    LET r == url_already_processed(url)
    IN  IF r.exc = "ok" /\ r.ret = "1"
        THEN [exc |-> "CurrentSessionURLError", checked |-> r.checked]
        ELSE [exc |-> r.exc, checked |-> r.checked]

\* _process_url: the exception raised, the new checked_urls, and whether
\* urlopen(url) was called
process_url(url) ==
    LET chk == check_url_if_processed(url)
        c == [exc |-> chk.exc, checked |-> chk.checked, opened |-> FALSE]
        o == [c EXCEPT !.opened = TRUE]
    IN  IF c.exc # "ok" THEN c
        ELSE IF url \in CachedUrls THEN c
        ELSE IF urlopen(url) # "ok" THEN [o EXCEPT !.exc = urlopen(url)]
        ELSE IF netloc(url) \notin valid_domains
             THEN [o EXCEPT !.exc = "InvalidURLDomainError"]
        ELSE o

\* _scrape_webpage of the scraper of www.azlyrics.com: the page is classified,
\* retrieved, its fields are extracted and the artist, the album and the song
\* are saved, in this order
scrape_webpage(url) ==
    LET category == get_lyrics_from_url(urlpath(url))
        same == [exc |-> "ok", artists |-> artists, albums |-> albums,
                 songs |-> songs, data |-> scraped_data, requested |-> FALSE]
        got == [same EXCEPT !.requested = TRUE]
        f == scrape_song_fields(url)
        artist == save_artist(<<IF category = "SONG" THEN f.song[2]
                                ELSE Page(url).artist>>)
        album == save_album(<<f.song[3], f.song[2], f.song[6]>>)
        song == save_song(f.song)
        saved1 == [got EXCEPT !.exc = artist.exc, !.artists = artist.table,
                              !.data.artists = artist.data]
        saved2 == [saved1 EXCEPT !.exc = album.exc, !.albums = album.table,
                                 !.data.albums = album.data]
        saved3 == [saved2 EXCEPT !.exc = song.exc, !.songs = song.table,
                                 !.data.songs = song.data]
    IN  IF category \notin {"SONG", "ARTIST"} THEN [same EXCEPT !.exc = category]
        ELSE IF get_webpage(url) # "ok" THEN [got EXCEPT !.exc = get_webpage(url)]
        ELSE IF category = "ARTIST" THEN saved1
        ELSE IF f.exc # "ok" THEN [got EXCEPT !.exc = f.exc]
        ELSE IF artist.exc # "ok" THEN saved1
        ELSE IF album.exc # "ok" THEN saved2
        ELSE saved3

\* the exceptions that the try statement of start_scraping catches
CaughtExceptions ==
    {"OSError", "URLError", "FileExistsError", "CurrentSessionURLError",
     "InvalidURLDomainError", "InvalidURLCategoryError",
     "MultipleLyricsURLError", "OverwriteSongError", "HTTP404Error",
     "SQLSanityCheckError"}

\* get_error_msg(error), as far as the model tells messages apart
get_error_msg(error) == error

\* _add_skipped_url
add_skipped_url(url, error) ==
    [skipped_urls EXCEPT ![url] = Append(@, error)]

InitRun ==
    /\ InitScraper
    /\ lyrics_urls \in UNION {[1..n -> Urls] : n \in 1..MaxUrls}
    /\ pc = "loop"
    /\ cpath = <<>>
    /\ cresult = "pending"

StartScrapingIteration ==
    /\ pc = "loop"
    /\ idx <= Len(lyrics_urls)
    /\ \E url \in {lyrics_urls[idx]} :
       \E p \in {process_url(url)}, w \in {scrape_webpage(url)} :
       \E exc \in {IF p.exc # "ok" THEN p.exc ELSE w.exc} :
       LET error == IF exc \in CaughtExceptions THEN exc ELSE "None"
           skip_url == exc # "ok"
           propagated == IF db_conn = "none" THEN "AttributeError"
                         ELSE IF exc \in CaughtExceptions THEN "ok"
                         ELSE exc
       IN  /\ checked_urls' = p.checked
           /\ IF p.exc = "ok"
              THEN /\ artists' = w.artists
                   /\ albums' = w.albums
                   /\ songs' = w.songs
                   /\ scraped_data' = w.data
                   /\ fetched' = IF w.requested THEN fetched \cup {url}
                                 ELSE fetched
              ELSE UNCHANGED <<artists, albums, songs, scraped_data, fetched>>
           \* finally: self.db_conn.close(), then the URL is added as skipped
           \* or good
           /\ db_conn' = IF db_conn = "none" THEN "none" ELSE "closed"
           /\ IF db_conn = "none"
              THEN UNCHANGED <<skipped_urls, good_urls>>
              ELSE IF skip_url
              THEN /\ skipped_urls' = add_skipped_url(url, get_error_msg(error))
                   /\ UNCHANGED good_urls
              ELSE /\ good_urls' = good_urls \cup {url}
                   /\ UNCHANGED skipped_urls
           /\ pc' = IF propagated = "ok" THEN "loop" ELSE "raised"
           /\ last' = [op |-> "start_scraping", url |-> url,
                       exc |-> propagated, ret |-> "", song |-> NoSong,
                       again |-> url \in called, requested |-> FALSE]
           /\ handled' = Append(handled, [url |-> url, exc |-> exc,
                                          opened |-> p.opened,
                                          conn |-> db_conn])
           /\ called' = called \cup {url}
    /\ idx' = idx + 1
    /\ nops' = nops + 1
    /\ UNCHANGED <<config_vars, classify_vars, pure_vars>>

StartScrapingReturn ==
    /\ pc = "loop"
    /\ idx > Len(lyrics_urls)
    /\ pc' = "done"
    /\ UNCHANGED <<config_vars, classify_vars, pure_vars, db_conn, songs, artists,
                   albums,
                   scraped_data, checked_urls, good_urls, skipped_urls,
                   fetched, called, last, nops, idx, handled>>

\* start_scraper, called by main for the action start: start_scraping has
\* returned, or an exception has left it, which start_scraper raises again
\* and main catches or drops in 'finally: return retcode'
StartScraper ==
    /\ pc \in {"done", "raised"}
    /\ mainpc = "idle"
    /\ mainpc' = "returned"
    /\ retcode' = IF pc = "done" THEN 0 ELSE retcode
    /\ UNCHANGED <<scraper_vars, classify_vars, year_vars, artist_vars,
                   prompt_vars, search_vars, crawl_vars, cfg_vars>>

NextRun == StartScrapingIteration \/ StartScrapingReturn \/ StartScraper

SpecRun == InitRun /\ [][NextRun]_vars

(***************************************************************************)
(* The classification of one URL.                                          *)
(***************************************************************************)
Segments == {<<>>, <<"l", "y", "r", "i", "c", "s">>, <<"l", "y", "r", "i", "c">>,
             <<"1", "9">>, <<"1">>, <<"a">>, <<"1", "a">>}

RECURSIVE PathsOf(_)
PathsOf(n) ==
    IF n = 0 THEN {<<>>}
    ELSE LET P == PathsOf(n - 1)
         IN  P \cup {p \o <<"/">> \o seg : p \in P, seg \in Segments}

\* the paths of https://site/lyrics/x/y.html, https://site/a/artist.html and
\* https://site/other/thing.html
SongExamplePath == LyricsPrefix \o <<"x", "/", "y", ".", "h", "t", "m", "l">>
ArtistExamplePath == <<"/", "a", "/", "a", "r", "t", "i", "s", "t", ".", "h",
                       "t", "m", "l">>
OtherExamplePath == <<"/", "o", "t", "h", "e", "r", "/", "t", "h", "i", "n",
                      "g", ".", "h", "t", "m", "l">>

Paths == PathsOf(MaxSegs)
           \cup {SongExamplePath, ArtistExamplePath, OtherExamplePath}

InitClassify ==
    /\ cpath \in Paths
    /\ cresult = "pending"
    /\ lyrics_urls = <<>>
    /\ db_filepath = FALSE
    /\ overwrite_db = FALSE
    /\ db_conn = "none"
    /\ songs0 = <<>>
    /\ songs = <<>>
    /\ artists = <<>>
    /\ albums = <<>>
    /\ scraped_data = [albums |-> <<>>, artists |-> <<>>, songs |-> <<>>]
    /\ checked_urls = {}
    /\ good_urls = {}
    /\ skipped_urls = [u \in Urls |-> <<>>]
    /\ fetched = {}
    /\ called = {}
    /\ last = NoLast
    /\ nops = 0
    /\ idx = 1
    /\ pc = "idle"
    /\ handled = <<>>
    /\ PureIdle

GetLyricsFromUrl ==
    /\ cresult = "pending"
    /\ cresult' = get_lyrics_from_url(cpath)
    /\ UNCHANGED <<config_vars, run_vars, cpath, db_conn, songs, artists,
                   albums, scraped_data, checked_urls, fetched, called, last,
                   nops, pure_vars>>

NextClassify == GetLyricsFromUrl

SpecClassify == InitClassify /\ [][NextClassify]_vars

(***************************************************************************)
(* The year of one album block of a song page: album.contents[2], the text *)
(* after the title, goes through re.findall and the two sanity checks, and *)
(* the year found becomes song_year.                                       *)
(***************************************************************************)
\* a scraper that is not used
InitIdle ==
    /\ lyrics_urls = <<>>
    /\ db_filepath = FALSE
    /\ overwrite_db = FALSE
    /\ db_conn = "none"
    /\ songs0 = <<>>
    /\ songs = <<>>
    /\ artists = <<>>
    /\ albums = <<>>
    /\ scraped_data = [albums |-> <<>>, artists |-> <<>>, songs |-> <<>>]
    /\ checked_urls = {}
    /\ good_urls = {}
    /\ skipped_urls = [u \in Urls |-> <<>>]
    /\ fetched = {}
    /\ called = {}
    /\ last = NoLast
    /\ nops = 0
    /\ idx = 1
    /\ pc = "idle"
    /\ handled = <<>>
    /\ cpath = <<>>
    /\ cresult = "pending"

YearChars == {"1", "9", "("}
YearTexts == UNION {[1..n -> YearChars] : n \in 0..MaxYearLen}

\* the year of an album block: the exception raised and song_year
scrape_album_year(text) ==
    LET year_result == findall_digits(text)
        year_check == check_album_year(year_result)
    IN  [exc |-> year_check,
         year |-> IF year_check = "ok" THEN year_result[1] ELSE <<>>]

InitYear ==
    /\ InitIdle
    /\ ArtistIdle
    /\ PromptIdle
    /\ MoreIdle
    /\ ytext \in YearTexts
    /\ yresult = [exc |-> "pending", year |-> <<>>]

ScrapeAlbumYear ==
    /\ yresult.exc = "pending"
    /\ yresult' = scrape_album_year(ytext)
    /\ UNCHANGED <<scraper_vars, classify_vars, artist_vars, prompt_vars,
                   more_vars, ytext>>

NextYear == ScrapeAlbumYear

SpecYear == InitYear /\ [][NextYear]_vars

(***************************************************************************)
(* The albums of an artist page (class ArtistWebpage).  The page is the    *)
(* sequence of the sibling tags of its list of albums: a <div> of class    *)
(* album (a named album or the section "other songs"), an anchor with an   *)
(* href (a song), or another tag.  A song is known by its href.            *)
(***************************************************************************)
\* re.findall(r'\((\d+)\)', text): the digit runs between parentheses
RECURSIVE findall_paren_digits(_)
findall_paren_digits(text) ==
    IF Len(text) < 3 THEN <<>>
    ELSE IF Head(text) # "(" THEN findall_paren_digits(Tail(text))
    ELSE LET rest == Tail(text)
             n == Cardinality({k \in 1..Len(rest) :
                                  \A i \in 1..k : rest[i] \in Digits})
         IN  IF n >= 1 /\ n < Len(rest) /\ rest[n + 1] = ")"
             THEN <<SubSeq(rest, 1, n)>>
                     \o findall_paren_digits(SubSeq(rest, n + 2, Len(rest)))
             ELSE findall_paren_digits(rest)

\* int(s) for a string of decimal digits
DigitValue(c) ==
    CASE c = "0" -> 0 [] c = "1" -> 1 [] c = "2" -> 2 [] c = "3" -> 3
      [] c = "4" -> 4 [] c = "5" -> 5 [] c = "6" -> 6 [] c = "7" -> 7
      [] c = "8" -> 8 [] c = "9" -> 9

RECURSIVE int(_)
int(s) ==
    IF s = <<>> THEN 0
    ELSE 10 * int(SubSeq(s, 1, Len(s) - 1)) + DigitValue(s[Len(s)])

\* the tags of an artist page
AlbumDiv(title, id, text) ==
    [tag |-> "div", class |-> "album", title |-> title, id |-> id,
     text |-> text, href |-> 0]
OtherSongsDiv ==
    [tag |-> "div", class |-> "album", title |-> "other songs", id |-> 0,
     text |-> <<>>, href |-> 0]
Anchor(href) ==
    [tag |-> "a", class |-> "", title |-> "", id |-> 0, text |-> <<>>,
     href |-> href]
Br == [tag |-> "br", class |-> "", title |-> "", id |-> 0, text |-> <<>>,
       href |-> 0]

\* div.text.count("other songs")
is_other_songs(div) == div.title = "other songs"

\* Albums.update_albums: the song of the anchor is added to the album
update_albums(album_dict, anchor_tag, album_title, album_id, album_year) ==
    LET known == IF album_title \in DOMAIN album_dict THEN album_dict
                 ELSE (album_title :> [album_id |-> album_id,
                                       album_year |-> album_year,
                                       songs |-> <<>>]) @@ album_dict
    IN  [known EXCEPT ![album_title].songs = Append(@, anchor_tag.href)]

\* Albums.get_songs_from_album_title: self._albums[album_title]['songs']
get_songs_from_album_title(album_dict, album_title) ==
    IF album_title \in DOMAIN album_dict THEN "ok" ELSE "KeyError"

\* the anchors among the siblings first..last are added to the album
RECURSIVE add_siblings(_, _, _, _, _, _, _)
add_siblings(album_dict, page, first, last_sibling, album_title, album_id, album_year) ==
    IF first > last_sibling THEN album_dict
    ELSE add_siblings(
             IF page[first].tag = "a"
             THEN update_albums(album_dict, page[first], album_title, album_id,
                                album_year)
             ELSE album_dict,
             page, first + 1, last_sibling, album_title, album_id, album_year)

\* the place of the first <div> of class album among the siblings of the tag
\* at place d, or Len(page) + 1
next_album_div(page, d) ==
    LET later == {i \in (d + 1)..Len(page) : page[i].class = "album"}
    IN  IF later = {} THEN Len(page) + 1
        ELSE CHOOSE i \in later : \A j \in later : i <= j

\* ArtistWebpage._add_songs_from_same_album: the exception raised and the new
\* dictionary
add_songs_from_same_album(page, d, album_dict) ==
    LET div == page[d]
        year_result == findall_paren_digits(div.text)
        year_check == check_album_year(year_result)
        added == add_siblings(album_dict, page, d + 1,
                              next_album_div(page, d) - 1,
                              div.title, div.id, int(year_result[1]))
    IN  IF year_check # "ok"
        THEN [exc |-> IF ignore_errors THEN "ok" ELSE year_check,
              albums |-> album_dict]
        ELSE [exc |-> get_songs_from_album_title(added, div.title),
              albums |-> added]

\* ArtistWebpage._add_songs_without_albums
add_songs_without_albums(page, d, album_dict) ==
    LET added == add_siblings(album_dict, page, d + 1, Len(page), "", "", "")
    IN  IF include_unknown_year
        THEN [exc |-> get_songs_from_album_title(added, ""), albums |-> added]
        ELSE [exc |-> "ok", albums |-> album_dict]

\* ArtistWebpage._scrape_albums, from the tag at place d on
RECURSIVE scrape_albums(_, _, _)
scrape_albums(page, d, album_dict) ==
    IF d > Len(page) THEN [exc |-> "ok", albums |-> album_dict]
    ELSE IF page[d].class # "album" THEN scrape_albums(page, d + 1, album_dict)
    ELSE LET r == IF is_other_songs(page[d])
                  THEN add_songs_without_albums(page, d, album_dict)
                  ELSE add_songs_from_same_album(page, d, album_dict)
         IN  IF r.exc # "ok" THEN r ELSE scrape_albums(page, d + 1, r.albums)

\* the pages: every sequence of at most MaxItems tags, and the page of an
\* artist with two albums of 13 songs and 1 song and 3 other songs
Y19 == <<"(", "1", "9", ")">>
TagKinds == {"al1", "al2", "al3", "al4", "other songs", "a"}
TagOf(kind, i) ==
    CASE kind = "al1" -> AlbumDiv("al1", 1, <<"(">> \o Y1981 \o <<")">>)
      [] kind = "al2" -> AlbumDiv("al2", 2, <<"(">> \o Y1982 \o <<")">>)
      [] kind = "al3" -> AlbumDiv("al3", 3, Y19)
      [] kind = "al4" -> AlbumDiv("al4", 4, <<>>)
      [] kind = "other songs" -> OtherSongsDiv
      [] kind = "a" -> Anchor(i)
      [] OTHER -> Br
PageOf(kinds) == [i \in 1..Len(kinds) |-> TagOf(kinds[i], i)]
ExampleKinds ==
    <<"al1">> \o [i \in 1..13 |-> "a"] \o <<"br", "al2", "a", "br",
      "other songs">> \o [i \in 1..3 |-> "a"]
ArtistPages ==
    {PageOf(kinds) : kinds \in UNION {[1..n -> TagKinds] : n \in 0..MaxItems}}
        \cup {PageOf(ExampleKinds)}

InitArtistPage ==
    /\ InitIdle
    /\ YearIdle
    /\ PromptIdle
    /\ MoreIdle
    /\ artist_page \in ArtistPages
    /\ include_unknown_year \in BOOLEAN
    /\ ignore_errors \in BOOLEAN
    /\ artist_albums = [exc |-> "pending", albums |-> <<>>]

ScrapeAlbums ==
    /\ artist_albums.exc = "pending"
    /\ artist_albums' = scrape_albums(artist_page, 1, <<>>)
    /\ UNCHANGED <<scraper_vars, classify_vars, year_vars, prompt_vars,
                   more_vars, artist_page, include_unknown_year,
                   ignore_errors>>

NextArtistPage == ScrapeAlbums

SpecArtistPage == InitArtistPage /\ [][NextArtistPage]_vars

(***************************************************************************)
(* The prompt of the interactive mode: _ask_user_for_search_result calls   *)
(* _multiple_search_result_case when several search results are listed and *)
(* _single_search_result_case when there is one.  Both schedule an alarm   *)
(* of delay_interactive seconds (a positive number) before input(msg); the *)
(* handler of SIGALRM raises TimeoutError where the program is.            *)
(***************************************************************************)
\* what the user may type
InputDigits == {c \in Digits : DigitValue(c) <= MaxResults + 1}
Inputs == {"n", "N", "y", "Y", "x"} \cup InputDigits

\* str.lower()
lower(s) == IF s = "N" THEN "n" ELSE IF s = "Y" THEN "y" ELSE s

\* the try block after input(msg): the exception raised and the new answer
try_multiple(text) ==
    IF lower(text) = "n" THEN [exc |-> "ok", answer |-> StrValue("n")]
    ELSE IF text \in Digits
         THEN [exc |-> "ok", answer |-> IntValue(int(<<text>>))]
    ELSE [exc |-> "ValueError", answer |-> StrValue(text)]

try_single(text) == [exc |-> "ok", answer |-> StrValue(lower(text))]

\* except TimeoutError: the answer taken when the alarm went off
except_timeout_error_rejects(single) == StrValue("n")

except_timeout_error(single) ==
    IF single THEN StrValue("y") ELSE IntValue(1)

\* the test of the finally clause: the answer ends the loop
good_input(single, a) ==
    IF single THEN ~a.isint /\ a.s \in {"y", "n"}
    ELSE (~a.isint /\ a.s = "n") \/ (a.isint /\ a.n \in 1..nb_results)

\* num, 0 for None
num_of(single, a) ==
    IF single THEN (IF a.s = "y" THEN 1 ELSE 0)
    ELSE (IF a.isint THEN a.n ELSE 0)

single_result == nb_results = 1

InitPrompt ==
    /\ InitIdle
    /\ YearIdle
    /\ ArtistIdle
    /\ MoreIdle
    /\ nb_results \in 1..MaxResults
    /\ ppc = "signal"
    /\ alarm = FALSE
    /\ raw = ""
    /\ answer = StrValue("")
    /\ answered = FALSE
    /\ retval = 0
    /\ tag = 0

prompt_others == <<scraper_vars, classify_vars, year_vars, artist_vars,
                   more_vars, nb_results>>

\* signal.signal(signal.SIGALRM, self.handler)
SignalSignal ==
    /\ ppc = "signal"
    /\ ppc' = "while"
    /\ UNCHANGED <<prompt_others, alarm, raw, answer, answered, retval, tag>>

\* answer = ""; try: signal.alarm(self.delay_interactive)
SignalAlarm ==
    /\ ppc = "while"
    /\ answer' = StrValue("")
    /\ alarm' = TRUE
    /\ ppc' = "input"
    /\ UNCHANGED <<prompt_others, raw, answered, retval, tag>>

\* input(msg) returns what the user typed
Input(text) ==
    /\ ppc = "input"
    /\ raw' = text
    /\ answered' = TRUE
    /\ ppc' = "try"
    /\ UNCHANGED <<prompt_others, alarm, answer, retval, tag>>

\* the rest of the try block
Try ==
    /\ ppc = "try"
    /\ LET r == IF single_result THEN try_single(raw) ELSE try_multiple(raw)
       IN  /\ answer' = r.answer
           /\ ppc' = IF r.exc = "ok" THEN "finally" ELSE "except ValueError"
    /\ UNCHANGED <<prompt_others, alarm, raw, answered, retval, tag>>

ExceptValueError ==
    /\ ppc = "except ValueError"
    /\ ppc' = "finally"
    /\ UNCHANGED <<prompt_others, alarm, raw, answer, answered, retval, tag>>

\* except TimeoutError: the default answer, then time.sleep(3)
ExceptTimeoutError ==
    /\ ppc = "except TimeoutError"
    /\ answer' = except_timeout_error(single_result)
    /\ ppc' = "finally"
    /\ UNCHANGED <<prompt_others, alarm, raw, answered, retval, tag>>

\* finally: break on a good input, else ask again
Finally ==
    /\ ppc = "finally"
    /\ ppc' = IF good_input(single_result, answer) THEN "break" ELSE "while"
    /\ UNCHANGED <<prompt_others, alarm, raw, answer, answered, retval, tag>>

\* signal.alarm(0); return num
Return ==
    /\ ppc = "break"
    /\ alarm' = FALSE
    /\ retval' = num_of(single_result, answer)
    /\ ppc' = "returned"
    /\ UNCHANGED <<prompt_others, raw, answer, answered, tag>>

\* _get_lyrics: return None if num is None, else tag = tags[num - 1]
GetLyrics ==
    /\ ppc = "returned"
    /\ tag' = retval
    /\ ppc' = "done"
    /\ UNCHANGED <<prompt_others, alarm, raw, answer, answered, retval>>

\* SIGALRM: handler raises TimeoutError where the program is: inside the try
\* block it is caught, elsewhere it leaves the method; at the top of the loop
\* the program is before the try statement or in it, before signal.alarm
Sigalrm ==
    /\ alarm
    /\ ppc \in {"while", "input", "try", "except ValueError", "finally", "break"}
    /\ alarm' = FALSE
    /\ ppc' \in IF ppc \in {"input", "try"} THEN {"except TimeoutError"}
                ELSE IF ppc = "while"
                THEN {"except TimeoutError", "TimeoutError"}
                ELSE {"TimeoutError"}
    /\ UNCHANGED <<prompt_others, raw, answer, answered, retval, tag>>

PromptStep ==
    \/ SignalSignal
    \/ SignalAlarm
    \/ Try
    \/ ExceptValueError
    \/ ExceptTimeoutError
    \/ Finally
    \/ Return
    \/ GetLyrics

NextPrompt ==
    \/ PromptStep
    \/ \E text \in Inputs : Input(text)
    \/ Sigalrm

SpecPrompt == InitPrompt /\ [][NextPrompt]_vars

\* the program runs, and a scheduled alarm goes off after its delay
FairSpecPrompt == SpecPrompt /\ WF_vars(PromptStep) /\ WF_vars(Sigalrm)

(***************************************************************************)
(* _get_lyrics without interaction: the search request, the request with   *)
(* the title only when the first one finds nothing, and the choice of the  *)
(* search result to scrape.  A search result is known by its text, one of  *)
(* Titles; texts are ordered as str orders them, by their number.  The     *)
(* tags and the texts of search_results_list are in the same order.        *)
(***************************************************************************)
Titles == 1..4
\* SequenceMatcher(...).ratio() of a text with the word searched, in tenths
Ratio == <<3, 7, 7, 9>>
Cutoff == 6

\* get_close_matches(word, possibilities)[0]: the text of the largest
\* (ratio, text) among the texts that reach the cutoff, 0 when matches is empty
first_close_match(possibilities) ==
    LET close == {possibilities[i] : i \in
                      {j \in 1..Len(possibilities) :
                           Ratio[possibilities[j]] >= Cutoff}}
    IN  IF close = {} THEN 0
        ELSE CHOOSE x \in close :
                 \A y \in close : \/ Ratio[y] < Ratio[x]
                                  \/ Ratio[y] = Ratio[x] /\ y <= x

\* possibilities.index(x), counted from 0 as Python does
index(possibilities, x) ==
    (CHOOSE i \in 1..Len(possibilities) :
         /\ possibilities[i] = x
         /\ \A j \in 1..(i - 1) : possibilities[j] # x) - 1

\* _select_best_match: the index of the best match, or "None"
select_best_match(possibilities) ==
    LET m == first_close_match(possibilities)
    IN  IF m # 0 THEN [none |-> FALSE, n |-> index(possibilities, m)]
        ELSE [none |-> TRUE, n |-> 0]

\* 'if result_index:' is false for None and false for 0
truthy(result_index) == ~result_index.none /\ result_index.n # 0

\* the tags _get_lyrics works with
search_tags(first, retry, artist) ==
    IF first = <<>> /\ artist THEN retry ELSE first

\* _get_lyrics with interactive = False: what it returns and the index
\* (counted from 1) of the tag whose URL goes to _get_lyrics_from_url
get_lyrics(first, retry, artist, best) ==
    LET tags == search_tags(first, retry, artist)
        result_index == select_best_match(tags)
    IN  IF tags # <<>>
        THEN IF best
             THEN IF truthy(result_index)
                  THEN [ret |-> "scraped", index |-> result_index.n + 1]
                  ELSE [ret |-> "None", index |-> 0]
             ELSE [ret |-> "scraped", index |-> 1]
        ELSE [ret |-> "None", index |-> 0]

SearchResults(n) == UNION {[1..k -> Titles] : k \in 0..n}

InitSearch ==
    /\ InitIdle
    /\ YearIdle
    /\ ArtistIdle
    /\ PromptIdle
    /\ ScriptIdle
    /\ CrawlIdle
    /\ search_first \in SearchResults(MaxTags)
    /\ search_retry \in SearchResults(MaxRetryTags)
    /\ artist_name \in BOOLEAN
    /\ best_match \in BOOLEAN
    /\ lresult = [ret |-> "pending", index |-> 0]

GetLyricsNoInteraction ==
    /\ lresult.ret = "pending"
    /\ lresult' = get_lyrics(search_first, search_retry, artist_name,
                             best_match)
    /\ UNCHANGED <<scraper_vars, classify_vars, year_vars, artist_vars,
                   prompt_vars, script_vars, crawl_vars, search_first,
                   search_retry, artist_name, best_match>>

NextSearch == GetLyricsNoInteraction

SpecSearch == InitSearch /\ [][NextSearch]_vars

(***************************************************************************)
(* The script: main performs one action, edit, reset, undo or start, on    *)
(* the config files.  The default config files are always there.           *)
(***************************************************************************)
\* the contents a config file may have: the default one, the default
\* configuration written another way, and two configurations of the user
Files == {DefaultFile, [cfg |-> "default", text |-> 1],
          [cfg |-> "user", text |-> 0], [cfg |-> "other", text |-> 0]}

\* load_cfg: the configuration read from a file
load_cfg(file) == file.cfg

\* what the external command of edit_config may return
ReturnCodes == {0, 1, 2}
Platforms == {"Darwin", "Linux"}

\* edit_config: run_cmd raises FileNotFoundError when the command is not an
\* executable (exe is FALSE); rc is the return code of the command run, rc2
\* the one of 'open -a' on macOS
edit_config(exe, platform, rc, rc2) ==
    IF exe THEN rc
    ELSE IF platform = "Darwin" THEN rc2
    ELSE 1

\* reset_config with the two copies in the other order
reset_config_backup_after_reset(user, bak) ==
    IF user = Missing
    THEN [exc |-> "FileNotFoundError", retcode |-> 1, user |-> user,
          bak |-> bak]
    ELSE IF load_cfg(user) = load_cfg(DefaultFile)
    THEN [exc |-> "ok", retcode |-> 2, user |-> user, bak |-> bak]
    ELSE [exc |-> "ok", retcode |-> 0, user |-> DefaultFile,
          bak |-> DefaultFile]

\* reset_config that compares the files and not what load_cfg reads
reset_config_compares_files(user, bak) ==
    IF user = Missing
    THEN [exc |-> "FileNotFoundError", retcode |-> 1, user |-> user,
          bak |-> bak]
    ELSE IF user = DefaultFile
    THEN [exc |-> "ok", retcode |-> 2, user |-> user, bak |-> bak]
    ELSE [exc |-> "ok", retcode |-> 0, user |-> DefaultFile, bak |-> user]

\* reset_config without the copy to the backup file
reset_config_no_backup(user, bak) ==
    IF user = Missing
    THEN [exc |-> "FileNotFoundError", retcode |-> 1, user |-> user,
          bak |-> bak]
    ELSE IF load_cfg(user) = load_cfg(DefaultFile)
    THEN [exc |-> "ok", retcode |-> 2, user |-> user, bak |-> bak]
    ELSE [exc |-> "ok", retcode |-> 0, user |-> DefaultFile, bak |-> bak]

\* reset_config: the exception raised, the value returned, and the user's
\* config file and the backup file afterwards
reset_config(user, bak) ==
    IF user = Missing
    THEN [exc |-> "FileNotFoundError", retcode |-> 1, user |-> user,
          bak |-> bak]
    ELSE IF load_cfg(user) = load_cfg(DefaultFile)
    THEN [exc |-> "ok", retcode |-> 2, user |-> user, bak |-> bak]
    ELSE [exc |-> "ok", retcode |-> 0, user |-> DefaultFile, bak |-> user]


\* undo_config without the os.unlink
undo_config_keeps_backup(user, bak) ==
    IF bak # Missing
    THEN [exc |-> "ok", retcode |-> 0, user |-> bak, bak |-> bak]
    ELSE [exc |-> "ok", retcode |-> 2, user |-> user, bak |-> bak]
\* undo_config: the exception raised, the value returned, and the user's
\* config file and the backup file afterwards
undo_config(user, bak) ==
    IF bak # Missing
    THEN [exc |-> "ok", retcode |-> 0, user |-> bak, bak |-> Missing]
    ELSE [exc |-> "ok", retcode |-> 2, user |-> user, bak |-> bak]

\* the arguments of the script: each option is "" when it is not given
Args == [edit : CfgTypes \cup {""}, reset : CfgTypes \cup {""},
         undo : CfgTypes \cup {""}, start_scraper : BOOLEAN]

\* the action that the if statement of main selects, and the type of config
\* file it is given
selected(args) ==
    IF args.edit # "" THEN [name |-> "edit", cfg_type |-> args.edit]
    ELSE IF args.reset # "" THEN [name |-> "reset", cfg_type |-> args.reset]
    ELSE IF args.undo # "" THEN [name |-> "undo", cfg_type |-> args.undo]
    ELSE IF args.start_scraper THEN [name |-> "start", cfg_type |-> ""]
    ELSE [name |-> "none", cfg_type |-> ""]

InitScript ==
    /\ InitIdle
    /\ YearIdle
    /\ ArtistIdle
    /\ PromptIdle
    /\ SearchIdle
    /\ CrawlIdle
    /\ retcode = 1
    /\ mainpc = "idle"
    /\ user_cfg \in [CfgTypes -> Files \cup {Missing}]
    \* no reset has been done yet
    /\ bak_cfg = [t \in CfgTypes |-> Missing]
    /\ last_action = NoAction
    /\ ncalls = 0
    /\ before_reset = [t \in CfgTypes |-> Missing]

script_others == <<scraper_vars, classify_vars, year_vars, artist_vars,
                   prompt_vars, search_vars, crawl_vars>>

\* main with the option edit
MainEdit(sel) ==
    /\ sel.name = "edit"
    /\ \E codes \in {IF user_cfg[sel.cfg_type] = Missing
                      THEN ReturnCodes \ {0} ELSE ReturnCodes} :
       \E code \in {edit_config(exe, platform, rc, rc2) :
                        exe \in BOOLEAN, platform \in Platforms,
                        rc \in codes, rc2 \in codes} :
           retcode' = code
    /\ last_action' = [name |-> "edit", cfg_type |-> sel.cfg_type, exc |-> "ok"]
    /\ UNCHANGED <<user_cfg, bak_cfg, before_reset>>

\* main with the option reset
MainReset(sel) ==
    /\ sel.name = "reset"
    /\ \E r \in {reset_config(user_cfg[sel.cfg_type], bak_cfg[sel.cfg_type])} :
           /\ retcode' = r.retcode
           /\ user_cfg' = [user_cfg EXCEPT ![sel.cfg_type] = r.user]
           /\ bak_cfg' = [bak_cfg EXCEPT ![sel.cfg_type] = r.bak]
           /\ before_reset' =
                  IF r.exc = "ok" /\ r.retcode = 0
                  THEN [before_reset EXCEPT
                            ![sel.cfg_type] = user_cfg[sel.cfg_type]]
                  ELSE before_reset
           /\ last_action' = [name |-> "reset", cfg_type |-> sel.cfg_type,
                              exc |-> r.exc]

\* main with the option undo
MainUndo(sel) ==
    /\ sel.name = "undo"
    /\ \E r \in {undo_config(user_cfg[sel.cfg_type], bak_cfg[sel.cfg_type])} :
           /\ retcode' = r.retcode
           /\ user_cfg' = [user_cfg EXCEPT ![sel.cfg_type] = r.user]
           /\ bak_cfg' = [bak_cfg EXCEPT ![sel.cfg_type] = r.bak]
           /\ last_action' = [name |-> "undo", cfg_type |-> sel.cfg_type,
                              exc |-> r.exc]
    /\ UNCHANGED before_reset

\* main with the option start: start_scraper loads the main config file, and
\* start_scraping runs to completion or an exception leaves it
MainStart(sel) ==
    /\ sel.name = "start"
    /\ \E exc \in IF user_cfg["main"] = Missing THEN {"FileNotFoundError"}
                  ELSE {"ok", "sqlite3.Error", "NonUniqueLyricsError"} :
           /\ retcode' = IF exc = "ok" THEN 0 ELSE 1
           /\ last_action' = [name |-> "start", cfg_type |-> "", exc |-> exc]
    /\ UNCHANGED <<user_cfg, bak_cfg, before_reset>>

\* main without any of the four options
MainNoAction(sel) ==
    /\ sel.name = "none"
    /\ retcode' = 1
    /\ last_action' = NoAction
    /\ UNCHANGED <<user_cfg, bak_cfg, before_reset>>

Main ==
    /\ ncalls < MaxCalls
    /\ ncalls' = ncalls + 1
    /\ mainpc' = "returned"
    /\ \E sel \in {selected(args) : args \in Args} :
           \/ MainEdit(sel)
           \/ MainReset(sel)
           \/ MainUndo(sel)
           \/ MainStart(sel)
           \/ MainNoAction(sel)
    /\ UNCHANGED script_others

\* the user saves the config file in the application that a successful edit
\* has opened
EditorSaves ==
    /\ last_action.name = "edit"
    /\ retcode = 0
    /\ \E f \in Files :
           /\ f # user_cfg[last_action.cfg_type]
           /\ user_cfg' = [user_cfg EXCEPT ![last_action.cfg_type] = f]
    /\ last_action' = [last_action EXCEPT !.name = "saved"]
    /\ UNCHANGED <<script_others, retcode, mainpc, bak_cfg, ncalls,
                   before_reset>>

NextScript == Main \/ EditorSaves

SpecScript == InitScript /\ [][NextScript]_vars

(***************************************************************************)
(* The crawl of artist pages, as the scraper of src/scrapers does it:      *)
(* start_scraping calls _process_url on each configured URL, which calls   *)
(* _crawl_artist_page, which calls _crawl_lyrics_page on each song link.   *)
(* A song link is known by what its page and the database hold.            *)
(***************************************************************************)
LinkKinds == {"good", "not found", "no lyrics", "two lyrics", "two years",
              "wrong century", "stored", "stored twice"}

\* _check_url_in_db
check_url_in_db(kind, overwrite) ==
    IF kind = "stored" /\ ~overwrite THEN "OverwriteSongError"
    ELSE IF kind = "stored twice" THEN "MultipleLyricsURLError"
    ELSE "ok"

\* the body of the try statement of _crawl_lyrics_page: the exception raised
crawl_lyrics_page_body(kind, overwrite) ==
    IF check_url_in_db(kind, overwrite) # "ok"
    THEN check_url_in_db(kind, overwrite)
    ELSE IF kind = "not found" THEN "WebPageNotFoundError"
    ELSE IF kind = "two lyrics" THEN "NonUniqueLyricsError"
    \* lyrics_res[0] of an empty list
    ELSE IF kind = "no lyrics" THEN "IndexError"
    ELSE IF kind = "two years" THEN "NonUniqueAlbumYearError"
    ELSE IF kind = "wrong century" THEN "WrongAlbumYearError"
    ELSE "ok"

\* the exceptions that the try statement of _crawl_lyrics_page catches
CrawlCaughtExceptions ==
    {"WebPageNotFoundError", "MultipleAlbumError", "NonUniqueLyricsError",
     "NonUniqueAlbumYearError", "WrongAlbumYearError",
     "MultipleLyricsURLError", "OverwriteSongError"}

\* _crawl_lyrics_page: the exception raised in it, and the one that leaves it
crawl_lyrics_page(kind, overwrite) ==
    LET exc == crawl_lyrics_page_body(kind, overwrite)
    IN  [exc |-> exc,
         left |-> IF exc \in CrawlCaughtExceptions THEN "ok" ELSE exc]

\* the exceptions that the try statement of start_scraping catches
StartCaughtExceptions ==
    {"URLError", "InvalidURLDomainError", "InvalidURLCategoryError",
     "MultipleLyricsURLError", "OverwriteSongError"}

LinkLists(n) == UNION {[1..k -> LinkKinds] : k \in 0..n}

InitCrawl ==
    /\ InitIdle
    /\ YearIdle
    /\ ArtistIdle
    /\ PromptIdle
    /\ SearchIdle
    /\ ScriptIdle
    /\ crawl_urls \in {<<page, <<"good">> >> : page \in LinkLists(MaxLinks)}
    /\ crawl_overwrite \in BOOLEAN
    /\ crawl_idx = 1
    /\ crawl_link = 1
    /\ crawl_pc = "loop"
    /\ crawl_log = <<>>

crawl_others == <<scraper_vars, classify_vars, year_vars, artist_vars,
                  prompt_vars, search_vars, script_vars, crawl_urls,
                  crawl_overwrite>>

\* start_scraping takes the next URL; _process_url and _crawl_artist_page
\* get to the loop over the song links of the page
CrawlArtistPage ==
    /\ crawl_pc = "loop"
    /\ crawl_idx <= Len(crawl_urls)
    /\ crawl_pc' = "artist"
    /\ crawl_link' = 1
    /\ UNCHANGED <<crawl_others, crawl_idx, crawl_log>>

\* one turn of the loop of _crawl_artist_page: _crawl_lyrics_page on a song
\* link; an exception that leaves it leaves _crawl_artist_page and
\* _process_url, and start_scraping when it does not catch it
CrawlLyricsPage ==
    /\ crawl_pc = "artist"
    /\ crawl_link <= Len(crawl_urls[crawl_idx])
    /\ \E r \in {crawl_lyrics_page(crawl_urls[crawl_idx][crawl_link],
                                   crawl_overwrite)} :
           /\ crawl_log' = Append(crawl_log, [url |-> crawl_idx,
                                              link |-> crawl_link,
                                              exc |-> r.exc])
           /\ IF r.left = "ok"
              THEN /\ crawl_link' = crawl_link + 1
                   /\ UNCHANGED <<crawl_pc, crawl_idx>>
              ELSE IF r.left \in StartCaughtExceptions
              THEN /\ crawl_pc' = "loop"
                   /\ crawl_idx' = crawl_idx + 1
                   /\ UNCHANGED crawl_link
              ELSE /\ crawl_pc' = "raised"
                   /\ UNCHANGED <<crawl_idx, crawl_link>>
    /\ UNCHANGED crawl_others

\* the loop of _crawl_artist_page ends
CrawlArtistPageReturn ==
    /\ crawl_pc = "artist"
    /\ crawl_link > Len(crawl_urls[crawl_idx])
    /\ crawl_pc' = "loop"
    /\ crawl_idx' = crawl_idx + 1
    /\ UNCHANGED <<crawl_others, crawl_link, crawl_log>>

\* the loop of start_scraping ends
CrawlReturn ==
    /\ crawl_pc = "loop"
    /\ crawl_idx > Len(crawl_urls)
    /\ crawl_pc' = "done"
    /\ UNCHANGED <<crawl_others, crawl_idx, crawl_link, crawl_log>>

NextCrawl ==
    \/ CrawlArtistPage
    \/ CrawlLyricsPage
    \/ CrawlArtistPageReturn
    \/ CrawlReturn

SpecCrawl == InitCrawl /\ [][NextCrawl]_vars

(***************************************************************************)
(* Properties.                                                             *)
(***************************************************************************)
rows_with_url(table, url) == SelectSeq(table, LAMBDA r : r[4] = url)

NoTwoSongsWithSameUrl(table) ==
    \A i, j \in 1..Len(table) : table[i][4] = table[j][4] => i = j

NoDuplicates(data) == \A i, j \in 1..Len(data) : data[i] = data[j] => i = j

IsPrefix(s, t) == Len(s) <= Len(t) /\ SubSeq(t, 1, Len(s)) = s

SkippedKeys == {u \in Urls : skipped_urls[u] # <<>>}

\* the failures of one URL that start_scraping is to recover from
RecoverableFailures ==
    {"InvalidURLDomainError", "InvalidURLCategoryError", "URLError",
     "HTTP404Error", "NonUniqueLyricsError", "NonUniqueAlbumYearError",
     "WrongAlbumYearError", "CurrentSessionURLError",
     "MultipleLyricsURLError", "OverwriteSongError", "FileExistsError"}

\* C1: start_scraping never aborts on a recoverable failure of one URL: the
\* URL and its error message are added to skipped_urls, the loop goes on with
\* the next URL, and when the run ends every configured URL is recorded as
\* good or as skipped.
C1_NeverAbortsOnRecoverableFailure ==
    /\ \A i \in 1..Len(handled) :
          handled[i].exc \in RecoverableFailures =>
             /\ handled[i].exc \in SeqToSet(skipped_urls[handled[i].url])
             /\ ~(pc = "raised" /\ i = Len(handled))
    /\ pc = "done" =>
          \A i \in 1..Len(lyrics_urls) :
             lyrics_urls[i] \in good_urls \cup SkippedKeys

C4_SongUrlUnique ==
    ~overwrite_db =>
        /\ NoTwoSongsWithSameUrl(scraped_data.songs)
        /\ NoTwoSongsWithSameUrl(songs0) => NoTwoSongsWithSameUrl(songs)

C8_CheckedIsGoodOrSkipped ==
    checked_urls = good_urls \cup SkippedKeys

\* the first segment of a path that begins with "/"
first_segment(path) ==
    IF path = <<>> \/ Head(path) # "/" THEN <<>>
    ELSE LET rest == Tail(path)
             stops == {i \in 1..Len(rest) : rest[i] = "/"}
             n == IF stops = {} THEN Len(rest)
                  ELSE (CHOOSE i \in stops : \A j \in stops : i <= j) - 1
         IN  SubSeq(rest, 1, n)

IsSongPath(path) == startswith(path, LyricsPrefix)

IsArtistPath(path) ==
    /\ ~IsSongPath(path)
    /\ \/ startswith(path, NumericPrefix)
       \/ (first_segment(path) # <<>> /\ first_segment(path)[1] \in Letters)

\* C9: a path that starts with /lyrics/ is a song page, also when the rule of
\* the artist pages applies to it; otherwise a path that starts with /19/ or
\* whose first segment begins with a letter is an artist page.
C9_ClassifiedByPathPrefix ==
    cresult # "pending" =>
        /\ IsSongPath(cpath) => cresult = "SONG"
        /\ IsArtistPath(cpath) => cresult = "ARTIST"
        /\ cresult = "SONG" => IsSongPath(cpath)
        /\ cresult = "ARTIST" => IsArtistPath(cpath)

\* https://site/lyrics/x/y.html is classified: a song page, though its first
\* segment begins with a letter
C9_Witness ==
    /\ cpath = SongExamplePath
    /\ first_segment(cpath)[1] \in Letters
    /\ cresult = "SONG"

\* C10: the classification of https://site/other/thing.html, and of every URL
\* that is neither a song URL nor an artist URL, the empty path and "/"
\* included, raises InvalidURLCategoryError and nothing else.
C10_OtherUrlsRaiseInvalidCategory ==
    cresult # "pending" =>
        /\ cpath = OtherExamplePath => cresult = "InvalidURLCategoryError"
        /\ (~IsSongPath(cpath) /\ ~IsArtistPath(cpath)) =>
              cresult = "InvalidURLCategoryError"

\* C11: the first URL that start_scraping handles, when its host is not one of
\* valid_domains, raises InvalidURLDomainError with no request sent for it
\* (urlopen not called, page not requested), cached copy or not.
C11_DomainValidatedFirst ==
    (Len(handled) >= 1 /\ netloc(handled[1].url) \notin valid_domains) =>
        /\ handled[1].exc = "InvalidURLDomainError"
        /\ ~handled[1].opened
        /\ handled[1].url \notin fetched

\* the digit groups of a text: the places <<i, j>> of its maximal runs of
\* decimal digits
DigitGroups(text) ==
    {g \in (1..Len(text)) \X (1..Len(text)) :
        /\ g[1] <= g[2]
        /\ \A i \in g[1]..g[2] : text[i] \in Digits
        /\ (g[1] = 1 \/ text[g[1] - 1] \notin Digits)
        /\ (g[2] = Len(text) \/ text[g[2] + 1] \notin Digits)}

C14_EveryAlbumBlockValidated ==
    ( /\ last.op = "scrape"
      /\ last.requested
      /\ get_webpage(last.url) = "ok"
      /\ Len(Page(last.url).lyrics) = 1 ) =>
        \A i \in 1..Len(Page(last.url).albums) :
           scrape_album_year(Page(last.url).albums[i].year).exc # "ok" =>
              last.exc = scrape_album_year(Page(last.url).albums[i].year).exc

marker_of(page, p) ==
    LET before == {i \in 1..(p - 1) : page[i].class = "album"}
    IN  IF before = {} THEN 0 ELSE CHOOSE i \in before : \A j \in before : j <= i

AnchorsOf(page) == {p \in 1..Len(page) : page[p].tag = "a"}

HasValidYear(div) == check_album_year(findall_paren_digits(div.text)) = "ok"

NamedAlbumDivs(page) ==
    {d \in 1..Len(page) : page[d].class = "album" /\ ~is_other_songs(page[d])}

\* the anchors that follow a named album, up to the next <div> of class album
NamedAlbumAnchors(page) ==
    {p \in AnchorsOf(page) : marker_of(page, p) \in NamedAlbumDivs(page)}

\* the songs of a dictionary of albums, and their number
SongsOf(album_dict) ==
    UNION {SeqToSet(album_dict[t].songs) : t \in DOMAIN album_dict}

RECURSIVE SongCount(_, _)
SongCount(album_dict, titles) ==
    IF titles = {} THEN 0
    ELSE LET t == CHOOSE x \in titles : TRUE
         IN  Len(album_dict[t].songs) + SongCount(album_dict, titles \ {t})

ScrapeAlbumsDone == artist_albums.exc \notin {"idle", "pending"}

\* C16: with include_unknown_year=False, the songs collected from an artist
\* page whose albums have valid years are exactly the anchors of its named
\* albums, each once (14 for albums of 13 and 1 songs followed by 3 other
\* songs); the section "other songs" adds nothing and no error is raised.
C16_NamedAlbumSongsOnly ==
    ( /\ ScrapeAlbumsDone
      /\ ~include_unknown_year
      /\ \A d \in NamedAlbumDivs(artist_page) : HasValidYear(artist_page[d]) ) =>
        /\ artist_albums.exc = "ok"
        /\ SongsOf(artist_albums.albums) = NamedAlbumAnchors(artist_page)
        /\ SongCount(artist_albums.albums, DOMAIN artist_albums.albums)
              = Cardinality(NamedAlbumAnchors(artist_page))
        /\ "" \notin DOMAIN artist_albums.albums
        /\ artist_page = PageOf(ExampleKinds) =>
              SongCount(artist_albums.albums, DOMAIN artist_albums.albums) = 14

\* the anchors that follow the named albums of the given title whose year is
\* valid, up to the next <div> of class album
OwnAnchors(page, title) ==
    {p \in NamedAlbumAnchors(page) :
        /\ page[marker_of(page, p)].title = title
        /\ HasValidYear(page[marker_of(page, p)])}

\* the anchors that follow a named album whose year is not valid
SkippedAlbumAnchors(page) ==
    {p \in NamedAlbumAnchors(page) : ~HasValidYear(page[marker_of(page, p)])}

\* C17: on an artist page with a named album whose year is not unique or not
\* four digits long: with ignore_errors=True no song of that album is in any
\* album of the result, while every other named album has exactly its own
\* songs; with ignore_errors=False the error of the year is raised.
C17_WrongYearAlbumSkipped ==
    ( /\ ScrapeAlbumsDone
      /\ \E d \in NamedAlbumDivs(artist_page) : ~HasValidYear(artist_page[d]) ) =>
        IF ignore_errors
        THEN /\ artist_albums.exc = "ok"
             /\ SongsOf(artist_albums.albums)
                   \cap SkippedAlbumAnchors(artist_page) = {}
             /\ \A d \in NamedAlbumDivs(artist_page) :
                   LET t == artist_page[d].title
                   IN  OwnAnchors(artist_page, t) # {} =>
                         /\ t \in DOMAIN artist_albums.albums
                         /\ SeqToSet(artist_albums.albums[t].songs)
                               = OwnAnchors(artist_page, t)
                         /\ Len(artist_albums.albums[t].songs)
                               = Cardinality(OwnAnchors(artist_page, t))
        ELSE artist_albums.exc
                \in {"NonUniqueAlbumYearError", "WrongAlbumYearError"}

\* the title under which the songs of a <div> of class album are kept
KeptTitle(div) == IF is_other_songs(div) THEN "" ELSE div.title

\* C18: every song of the dictionary of albums of an artist page is kept under
\* the <div> of class album that comes last before its anchor, named album or
\* "other songs", wherever the section "other songs" is on the page, and no
\* song is kept under two albums.
C18_SongsUnderNearestAlbum ==
    (ScrapeAlbumsDone /\ artist_albums.exc = "ok") =>
        /\ \A t \in DOMAIN artist_albums.albums :
              \A p \in SeqToSet(artist_albums.albums[t].songs) :
                 /\ marker_of(artist_page, p) # 0
                 /\ KeptTitle(artist_page[marker_of(artist_page, p)]) = t
        /\ \A t1, t2 \in DOMAIN artist_albums.albums :
              t1 # t2 => SeqToSet(artist_albums.albums[t1].songs)
                            \cap SeqToSet(artist_albums.albums[t2].songs) = {}

\* C19: the connection to the database is open when start_scraping begins the
\* turn of each URL, the first as the last, so that the operations of the turn
\* (the SELECT of the check, the INSERTs, the close() of the finally clause)
\* are never attempted on None or on a closed connection; it is closed once,
\* after the last URL.
C19_ConnectionOpenDuringRun ==
    \A i \in 1..Len(handled) : handled[i].conn = "open"

\* C20: in the interactive mode, a prompt the user never answers ends by
\* itself: it returns 1, the first of several search results or the only one,
\* the alarm is off when it has returned, and _get_lyrics goes on with that
\* search result.
C20_NoAnswerDefaultChoice ==
    /\ []((ppc \in {"returned", "done"} /\ ~answered) => (retval = 1 /\ ~alarm))
    /\ []((ppc = "done" /\ ~answered) => tag = 1)
    /\ (ppc = "signal") ~> (answered \/ ppc = "done")

\* several results were listed, the user typed nothing, the first is scraped
C20_Witness ==
    /\ nb_results > 1
    /\ ~answered
    /\ ppc = "done"
    /\ tag = 1

\* the tags of the search and the best match among them
TagsFound == search_tags(search_first, search_retry, artist_name)
CloseMatchIndexes ==
    {i \in 1..Len(TagsFound) :
         /\ Ratio[TagsFound[i]] >= Cutoff
         /\ \A j \in 1..Len(TagsFound) :
                \/ Ratio[TagsFound[j]] < Ratio[TagsFound[i]]
                \/ /\ Ratio[TagsFound[j]] = Ratio[TagsFound[i]]
                   /\ TagsFound[j] <= TagsFound[i]}

\* C21: without interaction and with best_match, when the search has results
\* and one of them is a close match, _get_lyrics scrapes the matched result,
\* at whatever position it is; it returns None only when there is no result
\* or no close match.  Without best_match the first result is scraped.
C21_BestMatchScraped ==
    lresult.ret \notin {"idle", "pending"} =>
        /\ (best_match /\ CloseMatchIndexes # {}) =>
               (lresult.ret = "scraped" /\ lresult.index \in CloseMatchIndexes)
        /\ (best_match /\ lresult.ret = "None") => CloseMatchIndexes = {}
        /\ (~best_match /\ TagsFound # <<>>) =>
               (lresult.ret = "scraped" /\ lresult.index = 1)
MainStep(name, t) ==
    /\ ncalls' = ncalls + 1
    /\ last_action'.name = name
    /\ last_action'.cfg_type = t

\* C23: reset followed by undo is the identity on the user's config file: an
\* undo that returns 0 leaves the file with the content it had before the
\* last reset that returned 0, and so does an undo right after that reset.
C23_ResetThenUndoIsIdentity ==
    [][\A t \in CfgTypes :
           (MainStep("undo", t) /\ retcode' = 0) =>
               /\ user_cfg'[t] = before_reset[t]
               /\ (last_action = [name |-> "reset", cfg_type |-> t,
                                  exc |-> "ok"] /\ retcode = 0) =>
                      (user_cfg[t] = DefaultFile /\ user_cfg'[t] = bak_cfg[t])]_vars
C23_Witness ==
    \E t \in CfgTypes :
        /\ last_action = [name |-> "undo", cfg_type |-> t, exc |-> "ok"]
        /\ retcode = 0
        /\ ncalls = 2
        /\ user_cfg[t] = before_reset[t]
        /\ load_cfg(user_cfg[t]) = "other"

\* C24: reset_config on a user config that differs from the default one
\* returns 0; afterwards the user's config file is the default one, and the
\* backup file is the user's config file as it was just before.
C24_ResetBacksUpAndResets ==
    [][\A t \in CfgTypes :
           (/\ MainStep("reset", t)
            /\ user_cfg[t] # Missing
            /\ load_cfg(user_cfg[t]) # load_cfg(DefaultFile)) =>
               /\ retcode' = 0
               /\ user_cfg'[t] = DefaultFile
               /\ bak_cfg'[t] = user_cfg[t]]_vars
C24_Witness ==
    \E t \in CfgTypes :
        /\ last_action = [name |-> "reset", cfg_type |-> t, exc |-> "ok"]
        /\ retcode = 0
        /\ user_cfg[t] = DefaultFile
        /\ load_cfg(bak_cfg[t]) = "user"

\* C25: reset_config on a user config that equals the default one returns 2
\* and changes neither the user's config file nor the backup file; an undo
\* right after such a reset still restores the file of before the reset that
\* returned 0.
C25_ResetOfDefaultChangesNothing ==
    [][\A t \in CfgTypes :
           /\ (/\ MainStep("reset", t)
               /\ user_cfg[t] # Missing
               /\ load_cfg(user_cfg[t]) = load_cfg(DefaultFile)) =>
                  /\ retcode' = 2
                  /\ user_cfg' = user_cfg
                  /\ bak_cfg' = bak_cfg
           /\ (/\ MainStep("undo", t)
               /\ last_action = [name |-> "reset", cfg_type |-> t,
                                 exc |-> "ok"]
               /\ retcode = 2
               /\ bak_cfg[t] # Missing) =>
                  /\ retcode' = 0
                  /\ user_cfg'[t] = before_reset[t]]_vars
C25_Witness ==
    \E t \in CfgTypes :
        /\ last_action = [name |-> "reset", cfg_type |-> t, exc |-> "ok"]
        /\ retcode = 2
        /\ ncalls = 2
        /\ user_cfg[t] = DefaultFile
        /\ bak_cfg[t] = before_reset[t]
        /\ bak_cfg[t] # Missing

\* C26: undo_config returns 0 and deletes the backup file when there is one;
\* when there is none, as on an undo right after a successful one, it
\* returns 2 and leaves the user's config file as it is.
C26_UndoDeletesBackup ==
    [][\A t \in CfgTypes :
           MainStep("undo", t) =>
               /\ bak_cfg[t] # Missing =>
                      (retcode' = 0 /\ bak_cfg'[t] = Missing)
               /\ bak_cfg[t] = Missing =>
                      (retcode' = 2 /\ user_cfg' = user_cfg
                           /\ bak_cfg' = bak_cfg)
               /\ (last_action = [name |-> "undo", cfg_type |-> t,
                                  exc |-> "ok"] /\ retcode = 0) =>
                      retcode' = 2]_vars
C26_Witness ==
    \E t \in CfgTypes :
        /\ last_action = [name |-> "undo", cfg_type |-> t, exc |-> "ok"]
        /\ retcode = 2
        /\ ncalls = 3
        /\ bak_cfg[t] = Missing
        /\ before_reset[t] # Missing
        /\ user_cfg[t] = before_reset[t]
\* the conditions "already reset" and "already undone" of a step of main
AlreadyInDesiredState ==
    \E t \in CfgTypes :
        \/ /\ MainStep("reset", t)
           /\ user_cfg[t] # Missing
           /\ load_cfg(user_cfg[t]) = load_cfg(DefaultFile)
        \/ /\ MainStep("undo", t)
           /\ bak_cfg[t] = Missing

\* the action of a step of main fails with an error: an exception is raised,
\* or the config file to edit is missing or its application does not start
ActionFails ==
    \/ last_action'.exc # "ok"
    \/ /\ last_action'.name = "edit"
       /\ \/ user_cfg[last_action'.cfg_type] = Missing
          \/ retcode' # 0

\* C27: main returns 0 when the action selected succeeds, 1 when it fails
\* with an error, the config files being left as they are, and 2 only when
\* the config file is already reset or the reset already undone.
C27_MainReturnCodes ==
    [][ncalls' = ncalls + 1 =>
           /\ retcode' \in {0, 1, 2}
           /\ retcode' = 2 => AlreadyInDesiredState
           /\ ActionFails =>
                  (retcode' = 1 /\ user_cfg' = user_cfg /\ bak_cfg' = bak_cfg)
           /\ retcode' = 0 => ~ActionFails]_vars
\* C28: the TimeoutError that the alarm raises never leaves the prompt,
\* whenever SIGALRM comes: the prompt returns None or an integer of
\* 1..nb_results, and no alarm is left scheduled.
C28_TimeoutErrorNeverEscapes ==
    /\ ppc # "TimeoutError"
    /\ ppc \in {"returned", "done"} => (retval \in 0..nb_results /\ ~alarm)
\* the list of the mirror holds exactly the rows of the table
SameRows(data, table) ==
    /\ SeqToSet(data) = SeqToSet(table)
    /\ Len(data) = Len(table)

SongLinks ==
    {ij \in (1..Len(crawl_urls)) \X (1..MaxLinks) :
         ij[2] <= Len(crawl_urls[ij[1]])}
LinksProcessed ==
    {<<crawl_log[k].url, crawl_log[k].link>> : k \in 1..Len(crawl_log)}

\* C30: a failure on a song link of an artist page skips that song only: no
\* exception stops the crawl, and when the crawl ends every song link of
\* every configured artist page has been processed.
C30_SongFailureSkipsOnlyThatSong ==
    /\ crawl_pc # "raised"
    /\ crawl_pc = "done" => LinksProcessed = SongLinks
====
